---------------------------- MODULE Spec2Model ----------------------------
(***************************************************************************)
(* Model of src/app.py: a single-register point-of-sale Flask application. *)
(* The persistent state is the SQLite database cart.db (tables cart and    *)
(* orders), which outlives the process. The server runs every request on   *)
(* a thread of its own. The writes of a handler run inside one             *)
(* `with get_db() as con:` transaction that commits on normal exit and     *)
(* rolls back when an exception leaves it; a SELECT runs outside any       *)
(* transaction. A handler that reads and then writes, or reads and then    *)
(* calls the payment gateway, is therefore two actions, with the requests  *)
(* of other threads served in between; every other handler is one action. *)
(*                                                                         *)
(* Text that the handlers convert (form fields, path segments) is a        *)
(* sequence of one-character strings, so that str.strip() and int() are    *)
(* modelled by what they do.                                               *)
(***************************************************************************)
EXTENDS Integers, Sequences, FiniteSets, Bags, TLC

VARIABLES
    cart,             \* rows of table cart, in rowid order: <<barcode, name, price, qty>>
    orders,           \* rows of table orders, in id order: <<id, order_number, total, status>>
    products,         \* what load_products() returns for the current products.txt
    razorpay_client,  \* TRUE iff the module-level client was built (both keys present)
    gateway,          \* TRUE iff the payment gateway holds an order this application created
    resp,             \* the last handler that ran, its response and its flash message
    requests,         \* the requests in flight: a bag of what each handler that has
                      \* read and not yet finished holds
    flow              \* the checkout in progress at the gateway: the amount of the order
                      \* it created, the subtotal of the cart createOrder read, and
                      \* whether the cart was changed since the latest createOrder call
                      \* read it (followed by CheckoutSpec only)

vars == <<cart, orders, products, razorpay_client, gateway, resp, requests, flow>>

-----------------------------------------------------------------------------
(* Bounds of the model.                                                    *)

\* largest number of items (sum of the quantities) the cart holds in the model
MaxItems == 2

-----------------------------------------------------------------------------
(* Text.                                                                   *)

\* a form field or JSON key that the request does not carry
Missing == <<"<missing>">>

Digits == <<"0", "1", "2", "3", "4", "5", "6", "7", "8", "9">>

\* the decimal digits of the other scripts (general category Nd of the
\* Unicode 14 tables of Python 3.11), by code point, each row from the
\* script's zero to its nine: int() reads them as it reads the ASCII ones
OtherDigits ==
    <<
      <<"U+0660", "U+0661", "U+0662", "U+0663", "U+0664", "U+0665", "U+0666", "U+0667", "U+0668", "U+0669">>,
      <<"U+06F0", "U+06F1", "U+06F2", "U+06F3", "U+06F4", "U+06F5", "U+06F6", "U+06F7", "U+06F8", "U+06F9">>,
      <<"U+07C0", "U+07C1", "U+07C2", "U+07C3", "U+07C4", "U+07C5", "U+07C6", "U+07C7", "U+07C8", "U+07C9">>,
      <<"U+0966", "U+0967", "U+0968", "U+0969", "U+096A", "U+096B", "U+096C", "U+096D", "U+096E", "U+096F">>,
      <<"U+09E6", "U+09E7", "U+09E8", "U+09E9", "U+09EA", "U+09EB", "U+09EC", "U+09ED", "U+09EE", "U+09EF">>,
      <<"U+0A66", "U+0A67", "U+0A68", "U+0A69", "U+0A6A", "U+0A6B", "U+0A6C", "U+0A6D", "U+0A6E", "U+0A6F">>,
      <<"U+0AE6", "U+0AE7", "U+0AE8", "U+0AE9", "U+0AEA", "U+0AEB", "U+0AEC", "U+0AED", "U+0AEE", "U+0AEF">>,
      <<"U+0B66", "U+0B67", "U+0B68", "U+0B69", "U+0B6A", "U+0B6B", "U+0B6C", "U+0B6D", "U+0B6E", "U+0B6F">>,
      <<"U+0BE6", "U+0BE7", "U+0BE8", "U+0BE9", "U+0BEA", "U+0BEB", "U+0BEC", "U+0BED", "U+0BEE", "U+0BEF">>,
      <<"U+0C66", "U+0C67", "U+0C68", "U+0C69", "U+0C6A", "U+0C6B", "U+0C6C", "U+0C6D", "U+0C6E", "U+0C6F">>,
      <<"U+0CE6", "U+0CE7", "U+0CE8", "U+0CE9", "U+0CEA", "U+0CEB", "U+0CEC", "U+0CED", "U+0CEE", "U+0CEF">>,
      <<"U+0D66", "U+0D67", "U+0D68", "U+0D69", "U+0D6A", "U+0D6B", "U+0D6C", "U+0D6D", "U+0D6E", "U+0D6F">>,
      <<"U+0DE6", "U+0DE7", "U+0DE8", "U+0DE9", "U+0DEA", "U+0DEB", "U+0DEC", "U+0DED", "U+0DEE", "U+0DEF">>,
      <<"U+0E50", "U+0E51", "U+0E52", "U+0E53", "U+0E54", "U+0E55", "U+0E56", "U+0E57", "U+0E58", "U+0E59">>,
      <<"U+0ED0", "U+0ED1", "U+0ED2", "U+0ED3", "U+0ED4", "U+0ED5", "U+0ED6", "U+0ED7", "U+0ED8", "U+0ED9">>,
      <<"U+0F20", "U+0F21", "U+0F22", "U+0F23", "U+0F24", "U+0F25", "U+0F26", "U+0F27", "U+0F28", "U+0F29">>,
      <<"U+1040", "U+1041", "U+1042", "U+1043", "U+1044", "U+1045", "U+1046", "U+1047", "U+1048", "U+1049">>,
      <<"U+1090", "U+1091", "U+1092", "U+1093", "U+1094", "U+1095", "U+1096", "U+1097", "U+1098", "U+1099">>,
      <<"U+17E0", "U+17E1", "U+17E2", "U+17E3", "U+17E4", "U+17E5", "U+17E6", "U+17E7", "U+17E8", "U+17E9">>,
      <<"U+1810", "U+1811", "U+1812", "U+1813", "U+1814", "U+1815", "U+1816", "U+1817", "U+1818", "U+1819">>,
      <<"U+1946", "U+1947", "U+1948", "U+1949", "U+194A", "U+194B", "U+194C", "U+194D", "U+194E", "U+194F">>,
      <<"U+19D0", "U+19D1", "U+19D2", "U+19D3", "U+19D4", "U+19D5", "U+19D6", "U+19D7", "U+19D8", "U+19D9">>,
      <<"U+1A80", "U+1A81", "U+1A82", "U+1A83", "U+1A84", "U+1A85", "U+1A86", "U+1A87", "U+1A88", "U+1A89">>,
      <<"U+1A90", "U+1A91", "U+1A92", "U+1A93", "U+1A94", "U+1A95", "U+1A96", "U+1A97", "U+1A98", "U+1A99">>,
      <<"U+1B50", "U+1B51", "U+1B52", "U+1B53", "U+1B54", "U+1B55", "U+1B56", "U+1B57", "U+1B58", "U+1B59">>,
      <<"U+1BB0", "U+1BB1", "U+1BB2", "U+1BB3", "U+1BB4", "U+1BB5", "U+1BB6", "U+1BB7", "U+1BB8", "U+1BB9">>,
      <<"U+1C40", "U+1C41", "U+1C42", "U+1C43", "U+1C44", "U+1C45", "U+1C46", "U+1C47", "U+1C48", "U+1C49">>,
      <<"U+1C50", "U+1C51", "U+1C52", "U+1C53", "U+1C54", "U+1C55", "U+1C56", "U+1C57", "U+1C58", "U+1C59">>,
      <<"U+A620", "U+A621", "U+A622", "U+A623", "U+A624", "U+A625", "U+A626", "U+A627", "U+A628", "U+A629">>,
      <<"U+A8D0", "U+A8D1", "U+A8D2", "U+A8D3", "U+A8D4", "U+A8D5", "U+A8D6", "U+A8D7", "U+A8D8", "U+A8D9">>,
      <<"U+A900", "U+A901", "U+A902", "U+A903", "U+A904", "U+A905", "U+A906", "U+A907", "U+A908", "U+A909">>,
      <<"U+A9D0", "U+A9D1", "U+A9D2", "U+A9D3", "U+A9D4", "U+A9D5", "U+A9D6", "U+A9D7", "U+A9D8", "U+A9D9">>,
      <<"U+A9F0", "U+A9F1", "U+A9F2", "U+A9F3", "U+A9F4", "U+A9F5", "U+A9F6", "U+A9F7", "U+A9F8", "U+A9F9">>,
      <<"U+AA50", "U+AA51", "U+AA52", "U+AA53", "U+AA54", "U+AA55", "U+AA56", "U+AA57", "U+AA58", "U+AA59">>,
      <<"U+ABF0", "U+ABF1", "U+ABF2", "U+ABF3", "U+ABF4", "U+ABF5", "U+ABF6", "U+ABF7", "U+ABF8", "U+ABF9">>,
      <<"U+FF10", "U+FF11", "U+FF12", "U+FF13", "U+FF14", "U+FF15", "U+FF16", "U+FF17", "U+FF18", "U+FF19">>,
      <<"U+104A0", "U+104A1", "U+104A2", "U+104A3", "U+104A4", "U+104A5", "U+104A6", "U+104A7", "U+104A8", "U+104A9">>,
      <<"U+10D30", "U+10D31", "U+10D32", "U+10D33", "U+10D34", "U+10D35", "U+10D36", "U+10D37", "U+10D38", "U+10D39">>,
      <<"U+11066", "U+11067", "U+11068", "U+11069", "U+1106A", "U+1106B", "U+1106C", "U+1106D", "U+1106E", "U+1106F">>,
      <<"U+110F0", "U+110F1", "U+110F2", "U+110F3", "U+110F4", "U+110F5", "U+110F6", "U+110F7", "U+110F8", "U+110F9">>,
      <<"U+11136", "U+11137", "U+11138", "U+11139", "U+1113A", "U+1113B", "U+1113C", "U+1113D", "U+1113E", "U+1113F">>,
      <<"U+111D0", "U+111D1", "U+111D2", "U+111D3", "U+111D4", "U+111D5", "U+111D6", "U+111D7", "U+111D8", "U+111D9">>,
      <<"U+112F0", "U+112F1", "U+112F2", "U+112F3", "U+112F4", "U+112F5", "U+112F6", "U+112F7", "U+112F8", "U+112F9">>,
      <<"U+11450", "U+11451", "U+11452", "U+11453", "U+11454", "U+11455", "U+11456", "U+11457", "U+11458", "U+11459">>,
      <<"U+114D0", "U+114D1", "U+114D2", "U+114D3", "U+114D4", "U+114D5", "U+114D6", "U+114D7", "U+114D8", "U+114D9">>,
      <<"U+11650", "U+11651", "U+11652", "U+11653", "U+11654", "U+11655", "U+11656", "U+11657", "U+11658", "U+11659">>,
      <<"U+116C0", "U+116C1", "U+116C2", "U+116C3", "U+116C4", "U+116C5", "U+116C6", "U+116C7", "U+116C8", "U+116C9">>,
      <<"U+11730", "U+11731", "U+11732", "U+11733", "U+11734", "U+11735", "U+11736", "U+11737", "U+11738", "U+11739">>,
      <<"U+118E0", "U+118E1", "U+118E2", "U+118E3", "U+118E4", "U+118E5", "U+118E6", "U+118E7", "U+118E8", "U+118E9">>,
      <<"U+11950", "U+11951", "U+11952", "U+11953", "U+11954", "U+11955", "U+11956", "U+11957", "U+11958", "U+11959">>,
      <<"U+11C50", "U+11C51", "U+11C52", "U+11C53", "U+11C54", "U+11C55", "U+11C56", "U+11C57", "U+11C58", "U+11C59">>,
      <<"U+11D50", "U+11D51", "U+11D52", "U+11D53", "U+11D54", "U+11D55", "U+11D56", "U+11D57", "U+11D58", "U+11D59">>,
      <<"U+11DA0", "U+11DA1", "U+11DA2", "U+11DA3", "U+11DA4", "U+11DA5", "U+11DA6", "U+11DA7", "U+11DA8", "U+11DA9">>,
      <<"U+16A60", "U+16A61", "U+16A62", "U+16A63", "U+16A64", "U+16A65", "U+16A66", "U+16A67", "U+16A68", "U+16A69">>,
      <<"U+16AC0", "U+16AC1", "U+16AC2", "U+16AC3", "U+16AC4", "U+16AC5", "U+16AC6", "U+16AC7", "U+16AC8", "U+16AC9">>,
      <<"U+16B50", "U+16B51", "U+16B52", "U+16B53", "U+16B54", "U+16B55", "U+16B56", "U+16B57", "U+16B58", "U+16B59">>,
      <<"U+1D7CE", "U+1D7CF", "U+1D7D0", "U+1D7D1", "U+1D7D2", "U+1D7D3", "U+1D7D4", "U+1D7D5", "U+1D7D6", "U+1D7D7">>,
      <<"U+1D7D8", "U+1D7D9", "U+1D7DA", "U+1D7DB", "U+1D7DC", "U+1D7DD", "U+1D7DE", "U+1D7DF", "U+1D7E0", "U+1D7E1">>,
      <<"U+1D7E2", "U+1D7E3", "U+1D7E4", "U+1D7E5", "U+1D7E6", "U+1D7E7", "U+1D7E8", "U+1D7E9", "U+1D7EA", "U+1D7EB">>,
      <<"U+1D7EC", "U+1D7ED", "U+1D7EE", "U+1D7EF", "U+1D7F0", "U+1D7F1", "U+1D7F2", "U+1D7F3", "U+1D7F4", "U+1D7F5">>,
      <<"U+1D7F6", "U+1D7F7", "U+1D7F8", "U+1D7F9", "U+1D7FA", "U+1D7FB", "U+1D7FC", "U+1D7FD", "U+1D7FE", "U+1D7FF">>,
      <<"U+1E140", "U+1E141", "U+1E142", "U+1E143", "U+1E144", "U+1E145", "U+1E146", "U+1E147", "U+1E148", "U+1E149">>,
      <<"U+1E2F0", "U+1E2F1", "U+1E2F2", "U+1E2F3", "U+1E2F4", "U+1E2F5", "U+1E2F6", "U+1E2F7", "U+1E2F8", "U+1E2F9">>,
      <<"U+1E950", "U+1E951", "U+1E952", "U+1E953", "U+1E954", "U+1E955", "U+1E956", "U+1E957", "U+1E958", "U+1E959">>,
      <<"U+1FBF0", "U+1FBF1", "U+1FBF2", "U+1FBF3", "U+1FBF4", "U+1FBF5", "U+1FBF6", "U+1FBF7", "U+1FBF8", "U+1FBF9">>
    >>

\* the value of every character int() takes for a decimal digit
DigitValues ==
    LET rows == <<Digits>> \o OtherDigits
        chars == UNION {{rows[k][i] : i \in 1..10} : k \in 1..Len(rows)}
    IN  [c \in chars |-> (CHOOSE i \in 1..10 : \E k \in 1..Len(rows) : rows[k][i] = c) - 1]

\* the characters int() takes for decimal digits
DigitChars == DOMAIN DigitValues

IsDigit(c) == c \in DigitChars

DigitVal(c) == DigitValues[c]

\* the characters str.isspace() holds for, which str.strip() removes at both
\* ends: the ASCII ones as themselves, the others by code point
Whitespace ==
    {" ", "\t", "\n", "\r", "\f", "U+000B", "U+001C", "U+001D", "U+001E", "U+001F",
     "U+0085", "U+00A0", "U+1680", "U+2000", "U+2001", "U+2002", "U+2003", "U+2004",
     "U+2005", "U+2006", "U+2007", "U+2008", "U+2009", "U+200A", "U+2028", "U+2029",
     "U+202F", "U+205F", "U+3000"}

IsSpace(c) == c \in Whitespace

RECURSIVE LStrip(_)
LStrip(s) ==
    IF s # <<>> /\ IsSpace(Head(s)) THEN LStrip(Tail(s)) ELSE s

RECURSIVE RStrip(_)
RStrip(s) ==
    IF s # <<>> /\ IsSpace(s[Len(s)]) THEN RStrip(SubSeq(s, 1, Len(s) - 1)) ELSE s

\* str.strip()
Strip(s) == RStrip(LStrip(s))

\* the characters int() skips at both ends: those of str.isspace() except
\* the four ASCII separators U+001C to U+001F
IntWhitespace == Whitespace \ {"U+001C", "U+001D", "U+001E", "U+001F"}

IsIntSpace(c) == c \in IntWhitespace

RECURSIVE IntLStrip(_)
IntLStrip(s) ==
    IF s # <<>> /\ IsIntSpace(Head(s)) THEN IntLStrip(Tail(s)) ELSE s

RECURSIVE IntRStrip(_)
IntRStrip(s) ==
    IF s # <<>> /\ IsIntSpace(s[Len(s)]) THEN IntRStrip(SubSeq(s, 1, Len(s) - 1)) ELSE s

-----------------------------------------------------------------------------
(* Numbers. A Python int has no largest value, an SQLite INTEGER has 64    *)
(* bits, and the product in int(total * 1.05) is an IEEE 754 double. A     *)
(* Python int is a sign and the decimal digits of its magnitude, most       *)
(* significant first and without leading zeros (none for 0). A natural     *)
(* number that the float arithmetic works on is a sequence of limbs, least *)
(* significant first and without leading zero limbs.                       *)

\* the base of the limbs
Limb == 2 ^ 15

\* the limbs without leading zeros
RECURSIVE BigNorm(_)
BigNorm(x) ==
    IF x # <<>> /\ x[Len(x)] = 0 THEN BigNorm(SubSeq(x, 1, Len(x) - 1)) ELSE x

\* the limbs of a natural number of the model
RECURSIVE BigOfNat(_)
BigOfNat(n) == IF n = 0 THEN <<>> ELSE <<n % Limb>> \o BigOfNat(n \div Limb)

\* the natural number of limbs within the model's integers
RECURSIVE NatOfBig(_)
NatOfBig(x) == IF x = <<>> THEN 0 ELSE Head(x) + Limb * NatOfBig(Tail(x))

\* x * k + carry for k and carry below the base; leading zeros are left in
RECURSIVE BigMulSmall(_, _, _)
BigMulSmall(x, k, carry) ==
    IF x = <<>> THEN BigOfNat(carry)
    ELSE LET v == Head(x) * k + carry
         IN  <<v % Limb>> \o BigMulSmall(Tail(x), k, v \div Limb)

\* x + y + carry; leading zeros are left in
RECURSIVE BigAdd(_, _, _)
BigAdd(x, y, carry) ==
    IF x = <<>> /\ y = <<>> THEN BigOfNat(carry)
    ELSE LET v == (IF x = <<>> THEN 0 ELSE Head(x))
                  + (IF y = <<>> THEN 0 ELSE Head(y)) + carry
         IN  <<v % Limb>> \o BigAdd(IF x = <<>> THEN <<>> ELSE Tail(x),
                                    IF y = <<>> THEN <<>> ELSE Tail(y),
                                    v \div Limb)

\* x * y, limb by limb of the shorter factor
RECURSIVE BigMul(_, _)
BigMul(x, y) ==
    IF y = <<>> THEN <<>>
    ELSE IF Len(y) > Len(x) THEN BigMul(y, x)
    ELSE BigNorm(BigAdd(BigMulSmall(x, Head(y), 0), <<0>> \o BigMul(x, Tail(y)), 0))

\* x divided by d, for d up to the base: quotient and remainder
RECURSIVE BigDivMod(_, _)
BigDivMod(x, d) ==
    IF x = <<>> THEN [quot |-> <<>>, rem |-> 0]
    ELSE LET upper == BigDivMod(Tail(x), d)
             v == upper.rem * Limb + Head(x)
         IN  [quot |-> <<v \div d>> \o upper.quot, rem |-> v % d]

\* x shifted right by k bits: the quotient, and whether bits were lost
RECURSIVE BigShr(_, _)
BigShr(x, k) ==
    IF k = 0 \/ x = <<>> THEN [quot |-> x, inexact |-> FALSE]
    ELSE IF k >= 15
    THEN LET rest == BigShr(Tail(x), k - 15)
         IN  [quot |-> rest.quot, inexact |-> rest.inexact \/ Head(x) # 0]
    ELSE LET d == BigDivMod(x, 2 ^ k)
         IN  [quot |-> BigNorm(d.quot), inexact |-> d.rem # 0]

\* x shifted left by k bits
RECURSIVE BigShl(_, _)
BigShl(x, k) ==
    IF k = 0 \/ x = <<>> THEN x
    ELSE LET bits == IF k > 14 THEN 14 ELSE k
         IN  BigShl(BigNorm(BigMulSmall(x, 2 ^ bits, 0)), k - bits)

\* the number of bits of a natural number below the base
RECURSIVE Bits(_)
Bits(n) == IF n = 0 THEN 0 ELSE 1 + Bits(n \div 2)

\* the number of bits of x
BigBits(x) == IF x = <<>> THEN 0 ELSE 15 * (Len(x) - 1) + Bits(x[Len(x)])

\* the number written with the decimal digits ds, most significant first
RECURSIVE BigOfDigits(_)
BigOfDigits(ds) ==
    IF ds = <<>> THEN <<>>
    ELSE BigNorm(BigMulSmall(BigOfDigits(SubSeq(ds, 1, Len(ds) - 1)), 10, ds[Len(ds)]))

\* a Python int
PyInt(neg, digits) == [neg |-> neg, digits |-> digits]

\* n < 1 for a Python int n
PyBelowOne(n) == n.neg \/ n.digits = <<>>

\* the digits without leading zeros
RECURSIVE DropZeros(_)
DropZeros(ds) == IF ds # <<>> /\ Head(ds) = 0 THEN DropZeros(Tail(ds)) ELSE ds

\* the natural number of decimal digits within the model's integers
RECURSIVE DigitsValue(_)
DigitsValue(ds) ==
    IF ds = <<>> THEN 0
    ELSE 10 * DigitsValue(SubSeq(ds, 1, Len(ds) - 1)) + ds[Len(ds)]

\* a < b for digits of the same length
RECURSIVE DigitsBefore(_, _)
DigitsBefore(a, b) ==
    /\ a # <<>>
    /\ \/ Head(a) < Head(b)
       \/ Head(a) = Head(b) /\ DigitsBefore(Tail(a), Tail(b))

\* a <= b for the magnitudes a and b
DigitsAtMost(a, b) ==
    \/ a = b
    \/ Len(a) < Len(b)
    \/ Len(a) = Len(b) /\ DigitsBefore(a, b)

\* sys.int_info.default_max_str_digits: the most digits int() converts
MaxStrDigits == 4300

\* int(text): the white space int() skips is dropped at both ends, one sign
\* is allowed, and decimal digits of any script must follow, with single "_"
\* allowed between two digits; anything else raises ValueError, and so does
\* a text of more than MaxStrDigits digits (leading zeros count, the sign,
\* the white space and the "_" do not)
ParseInt(s) ==
    LET t == IntRStrip(IntLStrip(s))
        signed == t # <<>> /\ Head(t) \in {"+", "-"}
        body == IF signed THEN Tail(t) ELSE t
        ok == /\ body # <<>>
              /\ Len(body) > MaxStrDigits
                     => Len(SelectSeq(body, IsDigit)) <= MaxStrDigits
              /\ \A i \in 1..Len(body) :
                     \/ IsDigit(body[i])
                     \/ /\ body[i] = "_"
                        /\ 1 < i /\ i < Len(body)
                        /\ IsDigit(body[i - 1]) /\ IsDigit(body[i + 1])
        chars == SelectSeq(body, IsDigit)
        digits == DropZeros([i \in 1..Len(chars) |-> DigitVal(chars[i])])
    IN  IF ~ok THEN [ok |-> FALSE, val |-> PyInt(FALSE, <<>>)]
        ELSE [ok |-> TRUE,
              val |-> PyInt(signed /\ Head(t) = "-" /\ digits # <<>>, digits)]

\* 2^63 = 9223372036854775808
TwoTo63Digits == <<9, 2, 2, 3, 3, 7, 2, 0, 3, 6, 8, 5, 4, 7, 7, 5, 8, 0, 8>>

\* a Python int bound to a parameter of an SQL statement: an SQLite INTEGER
\* has 64 bits, from -2^63 to 2^63 - 1, and sqlite3 raises OverflowError for
\* an int outside them
SqliteInteger(n) ==
    LET fits == IF n.neg THEN DigitsAtMost(n.digits, TwoTo63Digits)
                ELSE ~DigitsAtMost(TwoTo63Digits, n.digits)
    IN  [raised |-> ~fits,
         val |-> IF ~fits THEN 0
                 ELSE IF n.neg THEN 0 - DigitsValue(n.digits) ELSE DigitsValue(n.digits)]

\* float(n) and the result of a float operation: the nearest double of the
\* natural number x * 2^e, as mantissa of at most 53 bits and exponent, ties
\* to the even mantissa
RoundToDouble(x, e) ==
    LET drop == BigBits(x) - 53
        upper == BigShr(x, drop - 1)
        q == BigShr(upper.quot, 1).quot
        half == upper.quot # <<>> /\ Head(upper.quot) % 2 = 1
        odd == q # <<>> /\ Head(q) % 2 = 1
        up == half /\ (upper.inexact \/ odd)
    IN  IF drop <= 0 THEN [m |-> x, e |-> e]
        ELSE [m |-> IF up THEN BigNorm(BigAdd(q, <<1>>, 0)) ELSE q, e |-> e + drop]

\* the float literal 1.05: 0x1.0cccccccccccdp+0
Float105 ==
    [m |-> BigOfDigits(<<4, 7, 2, 8, 7, 7, 9, 6, 0, 8, 7, 3, 9, 0, 2, 1>>), e |-> 0 - 52]

\* a * b for doubles
FloatMul(a, b) == RoundToDouble(BigMul(a.m, b.m), a.e + b.e)

\* int(f) for a double f that is not negative: the fraction is cut off
IntOfFloat(f) ==
    IF f.e >= 0 THEN BigShl(f.m, f.e) ELSE BigShr(f.m, 0 - f.e).quot

\* int(total * 1.05) for a total given by its limbs
BigFinalAmount(total) == IntOfFloat(FloatMul(RoundToDouble(total, 0), Float105))

RECURSIVE NatToStr(_)
\* str(n) for n >= 0
NatToStr(n) ==
    IF n < 10 THEN <<Digits[n + 1]>>
    ELSE NatToStr(n \div 10) \o <<Digits[(n % 10) + 1]>>


-----------------------------------------------------------------------------
(* Data the model draws its inputs from.                                   *)

A1 == <<"A", "1">>
B2 == <<"B", "2">>
X9 == <<"X", "9">>

\* what load_products() returns for a products.txt with the lines
\* A1,Apple,50 and B2,Rice,1000
Catalog0 == (A1 :> [name |-> "Apple", price |-> 50]) @@ (B2 :> [name |-> "Rice", price |-> 1000])

\* what load_products() returns once the line of A1 has been changed to
\* A1,Apple Red,60
Catalog1 == (A1 :> [name |-> "Apple Red", price |-> 60]) @@ (B2 :> [name |-> "Rice", price |-> 1000])

\* the contents products.txt takes
Catalogs == {Catalog0, Catalog1}

\* values of the form field "barcode" of POST /
BarcodeInputs == {Missing, <<"\r", "\n">>, A1, <<"\t">> \o B2 \o <<" ">>, X9 \o <<"\n">>}

\* the text 9223372036854775808, which is 2^63
TwoTo63 ==
    <<"9", "2", "2", "3", "3", "7", "2", "0", "3", "6", "8", "5", "4", "7", "7", "5", "8", "0", "8">>

\* the text of MaxStrDigits + 1 digits 9
OverMaxStrDigits == [i \in 1..MaxStrDigits + 1 |-> "9"]

\* values of the form field "qty" of POST /
QtyInputs ==
    {Missing, <<"\t", "2">>, <<"0">>, <<"-", "3">>, <<"x">>, <<"U+001C", "2">>,
     <<"U+0662">>, TwoTo63, OverMaxStrDigits}

\* one of them for each quantity they leave (1, 2 and 2^63): a scan of any
\* other is in every state the same step as the scan of one of these
DistinctQtyInputs == {Missing, <<"\t", "2">>, TwoTo63}

\* values of the path segment <barcode>
PathBarcodes == {A1, B2, X9}

\* values of the path segment <action>
PathActions == {"inc", "dec", "set"}

\* values of time.time() and of random.randint(100, 999)
Clock == {1761861042, 1761861600}
RandomDraws == {100}

\* the earliest of the clock values
FirstClock == CHOOSE t \in Clock : \A u \in Clock : t <= u

\* the latest of the clock values
LastClock == CHOOSE t \in Clock : \A u \in Clock : u <= t

-----------------------------------------------------------------------------
(* Storage: the SQL statements the handlers execute, on row sequences.     *)

\* cart columns (barcode TEXT PRIMARY KEY, name TEXT, price INTEGER, qty INTEGER)
CartRow(barcode, name, price, qty) == <<barcode, name, price, qty>>

\* orders columns read by the model (id, order_number UNIQUE, total, status);
\* created_at takes its default and is never read
OrderRow(id, order_number, total, status) == <<id, order_number, total, status>>

\* SELECT qty FROM cart WHERE barcode=?  followed by fetchone(): the first
\* matching row, as <<qty>>, or <<>> for None
RECURSIVE SelectQty(_, _)
SelectQty(rows, barcode) ==
    IF rows = <<>> THEN <<>>
    ELSE IF Head(rows)[1] = barcode THEN <<Head(rows)[4]>>
    ELSE SelectQty(Tail(rows), barcode)

\* UPDATE cart SET qty = qty + ? WHERE barcode=?
UpdateQty(rows, delta, barcode) ==
    [i \in 1..Len(rows) |->
        IF rows[i][1] = barcode
        THEN CartRow(rows[i][1], rows[i][2], rows[i][3], rows[i][4] + delta)
        ELSE rows[i]]

\* INSERT INTO cart VALUES (?, ?, ?, ?): the PRIMARY KEY on barcode makes the
\* statement raise sqlite3.IntegrityError when the barcode is already there
InsertCart(rows, row) ==
    IF \E i \in 1..Len(rows) : rows[i][1] = row[1]
    THEN [raised |-> TRUE, rows |-> rows]
    ELSE [raised |-> FALSE, rows |-> Append(rows, row)]

\* DELETE FROM cart WHERE qty <= 1
DeleteNonPositive_UpToOne(rows) == SelectSeq(rows, LAMBDA row : row[4] > 1)

\* DELETE FROM cart WHERE qty < 0
DeleteNonPositive_Strict(rows) == SelectSeq(rows, LAMBDA row : row[4] >= 0)

\* DELETE FROM cart WHERE qty <= 0
RECURSIVE DeleteNonPositive(_)
DeleteNonPositive(rows) ==
    IF rows = <<>> THEN <<>>
    ELSE (IF Head(rows)[4] <= 0 THEN <<>> ELSE <<Head(rows)>>)
         \o DeleteNonPositive(Tail(rows))

\* DELETE FROM cart WHERE barcode=?
RECURSIVE DeleteBarcode(_, _)
DeleteBarcode(rows, barcode) ==
    IF rows = <<>> THEN <<>>
    ELSE (IF Head(rows)[1] = barcode THEN <<>> ELSE <<Head(rows)>>)
         \o DeleteBarcode(Tail(rows), barcode)

\* DELETE FROM cart with a WHERE clause that matches no row
DeleteAll_NoRow(rows) == rows

\* DELETE FROM cart
DeleteAll(rows) == <<>>

\* an insert into a table without UNIQUE(order_number)
InsertOrder_NoUnique(rows, order_number, total, status) ==
    [raised |-> FALSE,
     rows |-> Append(rows, OrderRow(Len(rows) + 1, order_number, total, status))]

\* INSERT INTO orders (order_number, total, status) VALUES (?, ?, ?): id is
\* AUTOINCREMENT, and UNIQUE(order_number) makes the statement raise
\* sqlite3.IntegrityError when the number is already in the table
InsertOrder(rows, order_number, total, status) ==
    IF \E i \in 1..Len(rows) : rows[i][2] = order_number
    THEN [raised |-> TRUE, rows |-> rows]
    ELSE [raised |-> FALSE,
          rows |-> Append(rows, OrderRow(Len(rows) + 1, order_number, total, status))]

\* a connection that commits what the block wrote also when it raised
EndTransaction_NoRollback(before, written, raised) == written

\* `with get_db() as con:` leaving the block: the connection commits what the
\* block wrote, or rolls it back when an exception leaves the block
EndTransaction(before, written, raised) ==
    IF raised THEN before ELSE written

\* a sum that stops after the first row
SumRows_FirstRow(rows) ==
    IF rows = <<>> THEN 0 ELSE Head(rows)[3] * Head(rows)[4]

\* sum(i[2] * i[3] for i in cart)
RECURSIVE SumRows(_)
SumRows(rows) ==
    IF rows = <<>> THEN 0
    ELSE Head(rows)[3] * Head(rows)[4] + SumRows(Tail(rows))

\* a total frozen when the gateway order was created
CartTotal_Frozen(rows) ==
    IF flow.created THEN flow.subtotal
    ELSE IF rows # <<>> THEN SumRows(rows) ELSE 0

\* total = sum(i[2] * i[3] for i in cart) if cart else 0
CartTotal(rows) == IF rows # <<>> THEN SumRows(rows) ELSE 0

\* final_amount = int(total * 1.05): the int total becomes a double, the
\* product is rounded to a double, and int() cuts its fraction off
FinalAmount(total) == NatOfBig(BigFinalAmount(BigOfNat(total)))

\* generate_order_number(): f"{int(time.time()) % 1000}{random.randint(100, 999)}"
generate_order_number(now, rnd) == NatToStr(now % 1000) \o NatToStr(rnd)

-----------------------------------------------------------------------------
(* Requests and responses.                                                 *)

NoFlash == <<>>
Flash(category, message) == <<category, message>>

\* redirect(url_for(endpoint))
Redirect(handler, endpoint, flashed) ==
    [handler |-> handler, status |-> 302, location |-> endpoint, flash |-> flashed]

\* jsonify(body), status
Json(handler, status, body, flashed) ==
    [handler |-> handler, status |-> status, json |-> body, flash |-> flashed]

\* render_template(template, **context)
Render(handler, template, context) ==
    [handler |-> handler, status |-> 200, template |-> template, context |-> context,
     flash |-> NoFlash]

\* the server's answer when an exception leaves the handler
InternalServerError(handler, exception) ==
    [handler |-> handler, status |-> 500, raised |-> exception, flash |-> NoFlash]

\* the number of items in the cart
RECURSIVE Items(_)
Items(rows) == IF rows = <<>> THEN 0 ELSE Head(rows)[4] + Items(Tail(rows))


-----------------------------------------------------------------------------
(* Requests in flight. The server runs each request on a thread of its own *)
(* (app.run serves threaded), and every thread opens its own connection.   *)
(* A SELECT runs outside any transaction: the sqlite3 module opens one     *)
(* only before an INSERT, UPDATE or DELETE. So the statements of other     *)
(* requests can run between a handler's SELECT and what it does next, and  *)
(* such a handler is two steps; a scan, which loads products.txt before    *)
(* its SELECT, is three. A write waits for the database lock until the     *)
(* other connection has committed, so the writes of one handler and their  *)
(* commit are one step on the committed rows.                              *)

\* the handlers that are between two of their steps at the same time
MaxInFlight == 2

\* the createOrder and payment-success calls among them: one browser calls
\* createOrder and then payment-success
MaxCheckouts == 1

\* the room a scan of quantity qty takes within the model's bound: the
\* quantity it adds, all of the bound for a quantity sqlite3 refuses (such a
\* scan adds nothing and is served while nothing else is in the cart or in
\* flight), and more than the bound for a quantity that is beyond the
\* model's integers
Added(qty) ==
    IF Len(qty.digits) = 1 THEN qty.digits[1]
    ELSE IF DigitsAtMost(TwoTo63Digits, qty.digits) THEN MaxItems
    ELSE IF qty.digits = <<>> THEN 0
    ELSE MaxItems + 1

\* the items a request in flight is about to add to the cart
Pending(r) == IF r.pc \in {"select", "write"} THEN Added(r.qty) ELSE 0

\* the items the requests in flight are about to add: each request counted
\* as often as it is in flight
PendingOf(reqs) ==
    BagCardinality([r \in {q \in BagToSet(reqs) : q.pc \in {"select", "write"}}
                       |-> reqs[r] * Pending(r)])

\* the cart and the scans in flight stay within the model's bound
WithinBound(rows, reqs) == Items(rows) + PendingOf(reqs) <= MaxItems

\* the createOrder and payment-success calls in flight
Checkouts(reqs) ==
    BagCardinality([r \in {q \in BagToSet(reqs) : q.pc \in {"order.create", "commit"}}
                       |-> reqs[r]])

\* another createOrder or payment-success call may start
CheckoutIdle == Checkouts(requests) < MaxCheckouts

\* no checkout is followed
NoFlow == [followed |-> FALSE, created |-> FALSE, amount |-> 0, subtotal |-> 0,
           edited |-> FALSE]

-----------------------------------------------------------------------------
(* What a step of a handler leaves behind: the two tables, the gateway,    *)
(* and the response when the step ends the handler. Each step is an        *)
(* operator from the current state and its inputs to this record, and an   *)
(* action that installs the record.                                        *)

Outcome(cart_rows, order_rows, gateway_holds, response) ==
    [cart |-> cart_rows, orders |-> order_rows, gateway |-> gateway_holds,
     resp |-> response]

\* a handler that answers before it reaches the database or the gateway
Answered(response) == [answered |-> TRUE, resp |-> response]

\* a handler that has read and goes on in a later step
InFlight(request) == [answered |-> FALSE, request |-> request]

\* a createOrder call has read the cart and waits for the gateway
Waiting == \E q \in BagToSet(requests) : q.handler = "create_order"

\* the checkout that is followed, when the request goes in flight: a
\* createOrder call that has read the cart starts the watch for edits
Opened(request) ==
    IF flow.followed /\ request.handler = "create_order"
    THEN [flow EXCEPT !.edited = FALSE]
    ELSE flow

\* the checkout that is followed, after the last step of the request r: a
\* step that changes the cart while createOrder waits or its order is open
\* marks it edited, createOrder's order at the gateway opens it, and the
\* commit of payment-success closes it
Track(out, r) ==
    IF ~flow.followed THEN flow
    ELSE IF out.resp.handler = "create_order" /\ out.resp.status = 200
    THEN [flow EXCEPT !.created = TRUE, !.amount = out.resp.json.amount,
                      !.subtotal = SumRows(r.cart)]
    ELSE IF out.resp.handler = "payment_success" /\ out.resp.status = 200
    THEN [flow EXCEPT !.created = FALSE,
                      !.edited = flow.edited \/ (Waiting /\ out.cart # cart)]
    ELSE IF (flow.created \/ Waiting) /\ out.cart # cart
    THEN [flow EXCEPT !.edited = TRUE]
    ELSE flow

\* a handler that is one step
Serve(out) ==
    /\ cart' = out.cart
    /\ orders' = out.orders
    /\ gateway' = out.gateway
    /\ resp' = out.resp
    /\ flow' = Track(out, [cart |-> cart])
    /\ UNCHANGED <<products, razorpay_client, requests>>

\* the first step of a handler: it answers, or it has read and holds what
\* it read
Begin(step) ==
    IF step.answered
    THEN Serve(Outcome(cart, orders, gateway, step.resp))
    ELSE /\ BagCardinality(requests) < MaxInFlight
         /\ requests' = requests (+) SetToBag({step.request})
         /\ flow' = Opened(step.request)
         /\ UNCHANGED <<cart, orders, products, razorpay_client, gateway, resp>>

\* a step in the middle of the handler of request r: it holds more
Continue(r, request) ==
    /\ requests' = (requests (-) SetToBag({r})) (+) SetToBag({request})
    /\ UNCHANGED <<cart, orders, products, razorpay_client, gateway, resp, flow>>

\* the last step of the handler of request r
Finish(r, out) ==
    /\ cart' = out.cart
    /\ orders' = out.orders
    /\ gateway' = out.gateway
    /\ resp' = out.resp
    /\ flow' = Track(out, r)
    /\ requests' = requests (-) SetToBag({r})
    /\ UNCHANGED <<products, razorpay_client>>

-----------------------------------------------------------------------------
(* POST / : a scan.                                                        *)

\* request.form.get("barcode", "").strip()
FormBarcode(form_barcode) ==
    Strip(IF form_barcode = Missing THEN <<>> ELSE form_barcode)

\* qty = int(request.form.get("qty", "1")), raised to 1 when below 1, and 1
\* when int() raises: a Python int, of any size
FormQty(form_qty) ==
    LET parsed == ParseInt(IF form_qty = Missing THEN <<"1">> ELSE form_qty)
    IN  IF ~parsed.ok THEN PyInt(FALSE, <<1>>)
        ELSE IF PyBelowOne(parsed.val) THEN PyInt(FALSE, <<1>>)
        ELSE parsed.val

\* POST / up to `p = products[barcode]`: the handler has loaded the catalog
\* and read the form, and holds the product of the barcode
home_load_result(form_barcode, form_qty) ==
    LET barcode == FormBarcode(form_barcode)
        qty == FormQty(form_qty)
    IN  IF barcode = <<>>
        THEN Answered(Redirect("home", "home", NoFlash))
        ELSE IF barcode \notin DOMAIN products
        THEN Answered(Redirect("home", "home",
                               Flash("warning", <<"Product not found", barcode>>)))
        ELSE InFlight([pc |-> "select", handler |-> "home", barcode |-> barcode,
                       product |-> products[barcode], qty |-> qty])

\* the SELECT and fetchone() of the request r in flight: it holds the row
\* it fetched beside what it held
home_select_result(r) ==
    [pc |-> "write", handler |-> "home", barcode |-> r.barcode,
     product |-> r.product, qty |-> r.qty, row |-> SelectQty(cart, r.barcode)]

\* a write that rewrites an existing line from the catalog
home_upsert_Resync(rows, barcode, p, qty, row) ==
    IF row # <<>>
    THEN [raised |-> FALSE,
          rows |-> [i \in 1..Len(rows) |->
                       IF rows[i][1] = barcode
                       THEN CartRow(barcode, p.name, p.price, rows[i][4] + qty)
                       ELSE rows[i]]]
    ELSE InsertCart(rows, CartRow(barcode, p.name, p.price, qty))

\* `if row:` UPDATE, else INSERT, on the rows the table holds now
home_upsert(rows, barcode, p, qty, row) ==
    IF row # <<>>
    THEN [raised |-> FALSE, rows |-> UpdateQty(rows, qty, barcode)]
    ELSE InsertCart(rows, CartRow(barcode, p.name, p.price, qty))

\* POST / from `if row:` to the redirect, for the request r in flight.
\* Both statements bind qty: for a qty that is no SQLite INTEGER execute()
\* raises OverflowError, which is no sqlite3.Error, so `except sqlite3.Error`
\* lets it pass, the transaction rolls back and the handler ends in the
\* server's answer to an unhandled exception
home_write_result(r) ==
    LET qty == SqliteInteger(r.qty)
        w == home_upsert(cart, r.barcode, r.product, qty.val, r.row)
    IN  IF qty.raised
        THEN Outcome(EndTransaction(cart, cart, TRUE), orders, gateway,
                     InternalServerError("home", "OverflowError"))
        ELSE Outcome(EndTransaction(cart, w.rows, w.raised), orders, gateway,
                     Redirect("home", "home",
                         IF w.raised
                         THEN Flash("error", "Error adding item to cart. Please try again.")
                         ELSE NoFlash))

\* POST / when nothing else happens between its steps
home_post_result(form_barcode, form_qty) ==
    LET step == home_load_result(form_barcode, form_qty)
    IN  IF step.answered
        THEN Outcome(cart, orders, gateway, step.resp)
        ELSE home_write_result(home_select_result(step.request))

home_load(form_barcode, form_qty) ==
    /\ Begin(home_load_result(form_barcode, form_qty))
    /\ WithinBound(cart, requests')

home_select(r) ==
    /\ BagIn(r, requests)
    /\ r.handler = "home"
    /\ r.pc = "select"
    /\ Continue(r, home_select_result(r))

home_write(r) ==
    /\ BagIn(r, requests)
    /\ r.handler = "home"
    /\ r.pc = "write"
    /\ Finish(r, home_write_result(r))

(* GET / : the cart view.                                                  *)
home_get_result(now, rnd) ==
    Outcome(cart, orders, gateway,
            Render("home", "cart.html",
                   [cart |-> cart, total |-> CartTotal(cart),
                    order_number |-> generate_order_number(now, rnd)]))

home_get(now, rnd) == Serve(home_get_result(now, rnd))

-----------------------------------------------------------------------------
(* GET /add-to-cart/<barcode>                                              *)

\* the handler up to `product = products[barcode]`: it has loaded the
\* catalog and holds the product of the barcode
add_to_cart_load_result(barcode) ==
    IF barcode \notin DOMAIN products
    THEN Answered(Redirect("add_to_cart", "shop",
                           Flash("error", <<"Product not found", barcode>>)))
    ELSE InFlight([pc |-> "select", handler |-> "add_to_cart", barcode |-> barcode,
                   product |-> products[barcode], qty |-> PyInt(FALSE, <<1>>)])

\* the SELECT and fetchone() of the request r in flight
add_to_cart_select_result(r) ==
    [pc |-> "write", handler |-> "add_to_cart", barcode |-> r.barcode,
     product |-> r.product, qty |-> r.qty, row |-> SelectQty(cart, r.barcode)]

\* `if existing:` UPDATE, else INSERT, on the rows the table holds now
add_to_cart_upsert(rows, barcode, product, existing) ==
    IF existing # <<>>
    THEN [raised |-> FALSE, rows |-> UpdateQty(rows, 1, barcode)]
    ELSE InsertCart(rows, CartRow(barcode, product.name, product.price, 1))

\* the handler from `if existing:` to the redirect, for the request r in flight
add_to_cart_write_result(r) ==
    LET w == add_to_cart_upsert(cart, r.barcode, r.product, r.row)
    IN  Outcome(EndTransaction(cart, w.rows, w.raised), orders, gateway,
                Redirect("add_to_cart", "shop",
                    IF w.raised
                    THEN Flash("error", "Error adding to cart. Please try again.")
                    ELSE IF r.row # <<>>
                    THEN Flash("success", <<"Added another to cart!", r.product.name>>)
                    ELSE Flash("success", <<"Added to cart!", r.product.name>>)))

\* the handler when nothing else happens between its steps
add_to_cart_result(barcode) ==
    LET step == add_to_cart_load_result(barcode)
    IN  IF step.answered
        THEN Outcome(cart, orders, gateway, step.resp)
        ELSE add_to_cart_write_result(add_to_cart_select_result(step.request))

add_to_cart_load(barcode) ==
    /\ Begin(add_to_cart_load_result(barcode))
    /\ WithinBound(cart, requests')

add_to_cart_select(r) ==
    /\ BagIn(r, requests)
    /\ r.handler = "add_to_cart"
    /\ r.pc = "select"
    /\ Continue(r, add_to_cart_select_result(r))

add_to_cart_write(r) ==
    /\ BagIn(r, requests)
    /\ r.handler = "add_to_cart"
    /\ r.pc = "write"
    /\ Finish(r, add_to_cart_write_result(r))

-----------------------------------------------------------------------------
(* GET /update/<barcode>/<action> : its statements are writes only, so the *)
(* handler is one transaction and one step.                                *)

\* a transaction without the DELETE
update_statements_NoDelete(rows, barcode, action) ==
    UpdateQty(rows, IF action = "inc" THEN 1 ELSE 0 - 1, barcode)

\* the statements of update()'s transaction
update_statements(rows, barcode, action) ==
    IF action = "inc"
    THEN UpdateQty(rows, 1, barcode)
    ELSE DeleteNonPositive(UpdateQty(rows, 0 - 1, barcode))

\* a handler without the check of the action: what is not inc decrements
update_result_AnyAction(barcode, action) ==
    Outcome(EndTransaction(cart, update_statements(cart, barcode, action), FALSE),
            orders, gateway,
            Redirect("update", "home", NoFlash) @@ [view_args |-> <<barcode, action>>])

\* the response also records the path arguments the handler was called with
update_result(barcode, action) ==
    IF action \notin {"inc", "dec"}
    THEN Outcome(cart, orders, gateway,
                 Redirect("update", "home", Flash("error", <<"Invalid action", action>>)))
    ELSE Outcome(EndTransaction(cart, update_statements(cart, barcode, action), FALSE),
                 orders, gateway,
                 Redirect("update", "home", NoFlash) @@ [view_args |-> <<barcode, action>>])

update(barcode, action) ==
    /\ Serve(update_result(barcode, action))
    /\ WithinBound(cart', requests)

-----------------------------------------------------------------------------
(* GET /delete/<barcode> : one DELETE, one step.                           *)

delete_result(barcode) ==
    Outcome(EndTransaction(cart, DeleteBarcode(cart, barcode), FALSE), orders, gateway,
            Redirect("delete", "home", NoFlash))

delete(barcode) == Serve(delete_result(barcode))

-----------------------------------------------------------------------------
(* GET /checkout : one SELECT, one step.                                   *)

checkout_result ==
    IF cart = <<>>
    THEN Outcome(cart, orders, gateway,
                 Redirect("checkout", "home",
                          Flash("info", "Your cart is empty. Please add items before checkout.")))
    ELSE Outcome(cart, orders, gateway,
                 Render("checkout", "checkout.html",
                        [cart |-> cart, total |-> CartTotal(cart),
                         final_amount |-> FinalAmount(CartTotal(cart))]))

checkout == Serve(checkout_result)

-----------------------------------------------------------------------------
(* The payment gateway (Razorpay), as the handlers use it.                 *)

\* the id the gateway gives an order it creates
GatewayOrderId == <<"order", 1>>

\* str(None): what verify_payment_signature makes of a key the body lacks
NoneId == <<"None", 0>>

\* HMAC-SHA256 of "order_id|payment_id" under the key secret: only the
\* gateway and the application can compute it
Hmac(order_id, payment_id) == <<"hmac", order_id, payment_id>>

\* a signature that was not computed under the key secret
ForgedSignature == <<"hmac", NoneId, "forged">>

\* a verification that compares the signed order id and not the payment id
verify_payment_signature_OrderOnly(params_dict) ==
    params_dict.razorpay_signature[2] = params_dict.razorpay_order_id

\* razorpay_client.utility.verify_payment_signature(params_dict): TRUE when
\* it returns, FALSE when it raises SignatureVerificationError
verify_payment_signature(params_dict) ==
    params_dict.razorpay_signature
        = Hmac(params_dict.razorpay_order_id, params_dict.razorpay_payment_id)

\* JSON bodies of POST /create-order
CreateOrderBodies ==
    {[is_json |-> FALSE], [is_json |-> TRUE, customer_name |-> Missing]}

\* what razorpay_client.order.create does: it returns the created order, or
\* it raises (network, authentication or validation failure)
GatewayOutcomes == {"created", "raises"}

\* JSON bodies of POST /payment-success. The gateway signs only payments of
\* orders it has created, so a body carries a signature computed under the
\* key secret only once the gateway holds an order; such a signature may
\* arrive with the payment id it was issued for or with another one, and any
\* body may carry a forged signature.
PaymentBodies ==
    {[is_json |-> FALSE],
     [is_json |-> TRUE, razorpay_order_id |-> NoneId,
      razorpay_payment_id |-> "None", razorpay_signature |-> ForgedSignature],
     [is_json |-> TRUE, razorpay_order_id |-> GatewayOrderId,
      razorpay_payment_id |-> "pay_1", razorpay_signature |-> ForgedSignature]}
    \cup {[is_json |-> TRUE, razorpay_order_id |-> GatewayOrderId,
           razorpay_payment_id |-> pid,
           razorpay_signature |-> Hmac(GatewayOrderId, "pay_1")]
          : pid \in IF gateway THEN {"pay_1", "pay_2"} ELSE {}}

\* JSON bodies of POST /payment-failure
FailureBodies ==
    {[is_json |-> FALSE],
     [is_json |-> TRUE, has_error |-> FALSE],
     [is_json |-> TRUE, has_error |-> TRUE, description |-> "Card declined"]}

\* the statement of payment_success's transaction that raises sqlite3.Error
\* for a reason outside the program (disk, lock), if any
Faults == {"none", "delete", "commit"}

-----------------------------------------------------------------------------
(* POST /create-order : the handler reads the cart, builds the order data, *)
(* and then waits for the gateway; it holds no lock while it waits.        *)

\* the handler's JSON answer, with the data of the order.create calls the
\* handler made
CreateOrderResponse(status, body, sent) ==
    [handler |-> "create_order", status |-> status, json |-> body, flash |-> NoFlash,
     sent |-> sent]

\* the handler up to the call of order.create: it holds the cart it read and
\* the order data it built from it
create_order_select_result(body) ==
    IF ~razorpay_client
    THEN Answered(CreateOrderResponse(500, [error |-> "Razorpay not configured"], <<>>))
    ELSE IF cart = <<>>
    THEN Answered(CreateOrderResponse(400, [error |-> "Cart is empty"], <<>>))
    ELSE IF ~body.is_json
    THEN \* request.json raises; the handler's except Exception answers
         Answered(CreateOrderResponse(500, [error |-> "request.json"], <<>>))
    ELSE LET total == SumRows(cart)
             final_amount == FinalAmount(total)
             order_amount == final_amount * 100
             order_data ==
                 [amount |-> order_amount, currency |-> "INR",
                  notes |-> [customer_name |->
                                 IF body.customer_name = Missing
                                 THEN "Customer" ELSE body.customer_name,
                             items |-> Len(cart)]]
         IN  InFlight([pc |-> "order.create", handler |-> "create_order",
                       cart |-> cart, order_amount |-> order_amount,
                       order_data |-> order_data])

\* a handler that calls order.create a second time when the first call raises
create_order_gateway_result_Retry(r, outcome) ==
    Outcome(cart, orders, TRUE,
            CreateOrderResponse(200,
                [order_id |-> GatewayOrderId, amount |-> r.order_amount,
                 currency |-> "INR"],
                IF outcome = "created"
                THEN <<r.order_data>>
                ELSE <<r.order_data, r.order_data>>))

\* order.create returns or raises, and the handler answers, for the request
\* r in flight
create_order_gateway_result(r, outcome) ==
    IF outcome = "created"
    THEN Outcome(cart, orders, TRUE,
                 CreateOrderResponse(200,
                     [order_id |-> GatewayOrderId, amount |-> r.order_amount,
                      currency |-> "INR"],
                     <<r.order_data>>))
    ELSE Outcome(cart, orders, gateway,
                 CreateOrderResponse(500, [error |-> "order.create"], <<r.order_data>>))

\* the handler when no other request is served while it waits for the gateway
create_order_result(body, outcome) ==
    LET step == create_order_select_result(body)
    IN  IF step.answered
        THEN Outcome(cart, orders, gateway, step.resp)
        ELSE create_order_gateway_result(step.request, outcome)

create_order_select(body) ==
    /\ CheckoutIdle
    /\ Begin(create_order_select_result(body))

create_order_gateway(r, outcome) ==
    /\ BagIn(r, requests)
    /\ r.handler = "create_order"
    /\ Finish(r, create_order_gateway_result(r, outcome))

-----------------------------------------------------------------------------
(* POST /payment-success : the handler verifies the signature, reads the   *)
(* cart, and then inserts the order and clears the cart in one transaction.*)

\* the handler's outer `except Exception as e`: it prints e and answers
PaymentError(e) ==
    [handler |-> "payment_success", status |-> 500,
     json |-> [success |-> FALSE,
               error |-> "Error processing payment. Please contact support.",
               redirect |-> "checkout"],
     flash |-> Flash("error", "Error processing payment. Please contact support."),
     printed |-> <<"ERROR: Payment success handler failed: ", e>>]

\* the handler up to and including SELECT * FROM cart and fetchall()
payment_success_select_result(body) ==
    IF ~body.is_json
    THEN \* request.json raises
         Answered(PaymentError("request.json"))
    ELSE IF ~razorpay_client
    THEN Answered(Json("payment_success", 500,
                       [success |-> FALSE,
                        error |-> "Payment gateway not configured.",
                        redirect |-> "home"],
                       NoFlash))
    ELSE IF ~verify_payment_signature(body)
    THEN Answered(Json("payment_success", 400,
                       [success |-> FALSE,
                        error |-> "Payment verification failed. Please contact support.",
                        redirect |-> "checkout"],
                       Flash("error", "Payment verification failed. Please contact support.")))
    ELSE InFlight([pc |-> "commit", handler |-> "payment_success", cart |-> cart])

\* the handler from the total to its answer, for the request r in flight:
\* the total is that of the cart it read, the INSERT and the DELETE act on
\* the rows the tables hold now
payment_success_commit_result(r, now, rnd, fault) ==
    LET total == CartTotal(r.cart)
        final_amount == FinalAmount(total)
        order_number == generate_order_number(now, rnd)
        ins == InsertOrder(orders, order_number, final_amount, "completed")
        cleared == IF ins.raised \/ fault = "delete"
                   THEN cart
                   ELSE DeleteAll(cart)
        raised == ins.raised \/ fault # "none"
        e == IF ins.raised THEN "UNIQUE constraint failed: orders.order_number"
             ELSE IF fault = "delete" THEN "DELETE FROM cart"
             ELSE "commit"
    IN  Outcome(EndTransaction(cart, cleared, raised),
                EndTransaction(orders, ins.rows, raised),
                gateway,
                IF raised
                THEN PaymentError(e)
                ELSE Json("payment_success", 200,
                          [success |-> TRUE,
                           message |-> <<"Payment successful! Order #", order_number>>,
                           redirect |-> "home"],
                          Flash("success", <<order_number, final_amount>>)))

\* the handler when no statement of another request runs between its SELECT
\* and its transaction
payment_success_result(body, now, rnd, fault) ==
    LET step == payment_success_select_result(body)
    IN  IF step.answered
        THEN Outcome(cart, orders, gateway, step.resp)
        ELSE payment_success_commit_result(step.request, now, rnd, fault)

payment_success_select(body) ==
    /\ CheckoutIdle
    /\ Begin(payment_success_select_result(body))

payment_success_commit(r, now, rnd, fault) ==
    /\ BagIn(r, requests)
    /\ r.handler = "payment_success"
    /\ Finish(r, payment_success_commit_result(r, now, rnd, fault))

-----------------------------------------------------------------------------
(* POST /payment-failure : no statement, one step.                         *)

\* a failure handler that also abandons the cart
payment_failure_result_ClearsCart(body) ==
    Outcome(DeleteAll(cart), orders, gateway,
            Json("payment_failure", 200,
                 [success |-> FALSE, error |-> "Payment failed", redirect |-> "checkout"],
                 Flash("error", "Payment failed")))

payment_failure_result(body) ==
    IF ~body.is_json
    THEN \* request.json raises; the handler's except Exception answers
         Outcome(cart, orders, gateway,
                 Json("payment_failure", 500,
                      [success |-> FALSE, error |-> "Payment failed. Please try again.",
                       redirect |-> "checkout"],
                      Flash("error", "Payment failed. Please try again.")))
    ELSE LET error_description ==
                 IF body.has_error THEN body.description ELSE "Payment failed"
         IN  Outcome(cart, orders, gateway,
                     Json("payment_failure", 200,
                          [success |-> FALSE, error |-> error_description,
                           redirect |-> "checkout"],
                          Flash("error", <<"Payment failed", error_description>>)))

payment_failure(body) == Serve(payment_failure_result(body))

-----------------------------------------------------------------------------
(* The state after start-up. init_db() creates the tables only when        *)
(* cart.db has none (CREATE TABLE IF NOT EXISTS), so they hold what an      *)
(* earlier run left: nothing on the first start. razorpay_client is set    *)
(* iff both keys are in the environment, and the gateway keeps the orders  *)
(* an earlier run created.                                                 *)

\* the cart table an earlier run left
LeftCarts == {<<>>, <<CartRow(B2, "Rice", 1000, 1)>>}

\* the orders table an earlier run left
LeftLedgers ==
    {<<>>, <<OrderRow(1, generate_order_number(LastClock, 100), 52, "completed")>>}

Init ==
    /\ cart \in LeftCarts
    /\ orders \in LeftLedgers
    /\ products = Catalog0
    /\ razorpay_client \in BOOLEAN
    /\ gateway \in BOOLEAN
    /\ orders # <<>> => gateway
    /\ resp = [handler |-> "init_db", status |-> 0, flash |-> NoFlash]
    /\ requests = EmptyBag
    /\ flow = NoFlow

\* the inputs of POST /: a scan whose barcode field is absent or blank does
\* not use its qty, so the absent qty stands for all of them there
ScanRequests ==
    {r \in BarcodeInputs \X QtyInputs : FormBarcode(r[1]) # <<>> \/ r[2] = Missing}

\* those of them that differ in the step they take
DistinctScanRequests == {r \in ScanRequests : r[2] \in DistinctQtyInputs}

Next ==
    \/ \E r \in DistinctScanRequests : home_load(r[1], r[2])
    \/ \E r \in BagToSet(requests) : home_select(r)
    \/ \E r \in BagToSet(requests) : home_write(r)
    \/ \E rnd \in RandomDraws : home_get(FirstClock, rnd)
    \/ \E b \in PathBarcodes : add_to_cart_load(b)
    \/ \E r \in BagToSet(requests) : add_to_cart_select(r)
    \/ \E r \in BagToSet(requests) : add_to_cart_write(r)
    \/ \E b \in PathBarcodes, a \in PathActions : update(b, a)
    \/ \E b \in PathBarcodes : delete(b)
    \/ checkout
    \/ \E body \in CreateOrderBodies : create_order_select(body)
    \/ \E r \in BagToSet(requests), outcome \in GatewayOutcomes :
          create_order_gateway(r, outcome)
    \/ \E body \in PaymentBodies : payment_success_select(body)
    \/ \E r \in BagToSet(requests), rnd \in RandomDraws, fault \in Faults :
          payment_success_commit(r, FirstClock, rnd, fault)
    \/ \E body \in FailureBodies : payment_failure(body)

Spec == Init /\ [][Next]_vars

-----------------------------------------------------------------------------
(* The computation final_amount = int(total * 1.05) of checkout,           *)
(* create_order and payment_success on its own, for subtotals from 0 and   *)
(* for subtotals from LargeSubtotal on, which a cart holds when the        *)
(* catalog carries such a price.                                           *)

\* the number of subtotals taken from 0 on and from LargeSubtotal on
MaxSubtotal == 1000

\* 498201518643699
LargeSubtotal == BigOfDigits(<<4, 9, 8, 2, 0, 1, 5, 1, 8, 6, 4, 3, 6, 9, 9>>)

\* the subtotals the computation is applied to, in limbs
Subtotals ==
    {BigOfNat(n) : n \in 0..MaxSubtotal}
        \cup {BigNorm(BigAdd(LargeSubtotal, BigOfNat(n), 0)) : n \in 0..MaxSubtotal}

\* total = sum(i[2] * i[3] for i in cart) has been computed
RoundingInit ==
    /\ cart = <<>>
    /\ orders = <<>>
    /\ products = Catalog0
    /\ razorpay_client = TRUE
    /\ gateway = FALSE
    /\ resp \in {[handler |-> "total", status |-> 0, flash |-> NoFlash, total |-> t] :
                    t \in Subtotals}
    /\ requests = EmptyBag
    /\ flow = NoFlow

\* final_amount = int(total * 1.05)
final_amount_step ==
    /\ resp.handler = "total"
    /\ resp' = [handler |-> "final_amount", status |-> 0, flash |-> NoFlash,
                total |-> resp.total, final_amount |-> BigFinalAmount(resp.total)]
    /\ UNCHANGED <<cart, orders, products, razorpay_client, gateway, requests, flow>>

RoundingNext == final_amount_step

RoundingSpec == RoundingInit /\ [][RoundingNext]_vars

-----------------------------------------------------------------------------
(* Scans only: the barcode scanner (POST /) and the shop page              *)
(* (add-to-cart) are served at the same time.                              *)

ScanNext ==
    \/ \E r \in ScanRequests : home_load(r[1], r[2])
    \/ \E r \in BagToSet(requests) : home_select(r)
    \/ \E r \in BagToSet(requests) : home_write(r)
    \/ \E b \in PathBarcodes : add_to_cart_load(b)
    \/ \E r \in BagToSet(requests) : add_to_cart_select(r)
    \/ \E r \in BagToSet(requests) : add_to_cart_write(r)

ScanSpec == Init /\ [][ScanNext]_vars

-----------------------------------------------------------------------------
(* The checkout flow with its history followed: what createOrder sent for  *)
(* the order the gateway holds, and whether the cart was changed since     *)
(* createOrder read it. The gateway keys are set.                          *)

CheckoutInit ==
    /\ cart = <<>>
    /\ orders = <<>>
    /\ products = Catalog0
    /\ razorpay_client = TRUE
    /\ gateway = FALSE
    /\ resp = [handler |-> "init_db", status |-> 0, flash |-> NoFlash]
    /\ requests = EmptyBag
    /\ flow = [NoFlow EXCEPT !.followed = TRUE]

\* the callback the gateway sends for the order it created
GatewayCallback ==
    [is_json |-> TRUE, razorpay_order_id |-> GatewayOrderId,
     razorpay_payment_id |-> "pay_1",
     razorpay_signature |-> Hmac(GatewayOrderId, "pay_1")]

\* the cashier scans catalogued barcodes and edits lines, createOrder
\* succeeds at the gateway, and the gateway calls back with its signature
CheckoutNext ==
    \/ \E b \in DOMAIN products : home_load(b, Missing)
    \/ \E r \in BagToSet(requests) : home_select(r)
    \/ \E r \in BagToSet(requests) : home_write(r)
    \/ \E b \in DOMAIN products, a \in {"inc", "dec"} : update(b, a)
    \/ \E b \in DOMAIN products : delete(b)
    \/ create_order_select([is_json |-> TRUE, customer_name |-> Missing])
    \/ \E r \in BagToSet(requests) : create_order_gateway(r, "created")
    \/ gateway /\ payment_success_select(GatewayCallback)
    \/ \E r \in BagToSet(requests), rnd \in RandomDraws :
          payment_success_commit(r, FirstClock, rnd, "none")

CheckoutSpec == CheckoutInit /\ [][CheckoutNext]_vars

-----------------------------------------------------------------------------
(* The cart while the catalog file changes. Every handler calls            *)
(* load_products() when it starts, so it sees the file as it is then.      *)

\* products.txt is rewritten; nothing of the application runs
edit_products(catalog) ==
    /\ catalog # products
    /\ products' = catalog
    /\ resp' = [handler |-> "products.txt", status |-> 0, flash |-> NoFlash]
    /\ UNCHANGED <<cart, orders, razorpay_client, gateway, requests, flow>>

CatalogInit ==
    /\ cart = <<>>
    /\ orders = <<>>
    /\ products = Catalog0
    /\ razorpay_client = FALSE
    /\ gateway = FALSE
    /\ resp = [handler |-> "init_db", status |-> 0, flash |-> NoFlash]
    /\ requests = EmptyBag
    /\ flow = NoFlow

CatalogNext ==
    \/ \E catalog \in Catalogs : edit_products(catalog)
    \/ \E r \in ScanRequests : home_load(r[1], r[2])
    \/ \E r \in BagToSet(requests) : home_select(r)
    \/ \E r \in BagToSet(requests) : home_write(r)
    \/ \E b \in PathBarcodes : add_to_cart_load(b)
    \/ \E r \in BagToSet(requests) : add_to_cart_select(r)
    \/ \E r \in BagToSet(requests) : add_to_cart_write(r)
    \/ \E b \in PathBarcodes, a \in PathActions : update(b, a)
    \/ \E b \in PathBarcodes : delete(b)

CatalogSpec == CatalogInit /\ [][CatalogNext]_vars

-----------------------------------------------------------------------------
(* What the claims speak of, stated apart from the handlers' code.         *)

\* the quantity the cart holds of a barcode: 0 when no line has it
RECURSIVE QtyOf(_, _)
QtyOf(rows, barcode) ==
    IF rows = <<>> THEN 0
    ELSE (IF Head(rows)[1] = barcode THEN Head(rows)[4] ELSE 0) + QtyOf(Tail(rows), barcode)

\* the lines of the cart that carry a barcode
LinesOf(rows, barcode) == {i \in 1..Len(rows) : rows[i][1] = barcode}

\* the sum over the first n cart lines of price * quantity
RECURSIVE SubtotalTo(_, _)
SubtotalTo(rows, n) ==
    IF n = 0 THEN 0 ELSE rows[n][3] * rows[n][4] + SubtotalTo(rows, n - 1)

\* the sum over all cart lines of price * quantity
Subtotal(rows) == SubtotalTo(rows, Len(rows))

\* floor(1.05 * subtotal): the integer n with n <= 1.05 * subtotal < n + 1
Floor105(subtotal) ==
    CHOOSE n \in subtotal..(2 * subtotal) :
        100 * n <= 105 * subtotal /\ 105 * subtotal < 100 * (n + 1)

\* floor(1.05 * subtotal) for a subtotal given by its limbs: the quotient of
\* 21 * subtotal by 20
BigFloor105(subtotal) ==
    BigNorm(BigDivMod(BigNorm(BigMulSmall(subtotal, 21, 0)), 20).quot)

\* a body whose signature is the HMAC of its own order id and payment id
GenuineSignature(body) ==
    /\ body.is_json
    /\ body.razorpay_signature = Hmac(body.razorpay_order_id, body.razorpay_payment_id)

\* orders2 is orders1 with exactly one row appended
OneOrderAppended(orders1, orders2) ==
    /\ Len(orders2) = Len(orders1) + 1
    /\ SubSeq(orders2, 1, Len(orders1)) = orders1

\* a response of payment_success that reports success
PaymentCommitted(r) ==
    /\ r.handler = "payment_success"
    /\ r.status = 200
    /\ r.json.success

\* a response of payment_success that reports a failure
PaymentRefused(r) ==
    /\ r.handler = "payment_success"
    /\ r.status >= 400
    /\ ~r.json.success

\* every input POST /payment-success can carry in the current state
AllPaymentRequests == PaymentBodies \X Clock \X RandomDraws \X Faults

\* the requests of a handler that are in flight: what each holds after its
\* first step
InFlightOf(handler) ==
    {r \in BagToSet(requests) : r.handler = handler}

\* the scans (POST / and add-to-cart) that have loaded the catalog and not
\* yet written
ScansInFlight == InFlightOf("home") \cup InFlightOf("add_to_cart")

\* the qty of the scan r is one SQLite stores (its refusal of a larger one
\* is the subject of C6)
Stored(r) == ~SqliteInteger(r.qty).raised

\* what a scan in flight leaves behind when it goes on with nothing else in
\* between
ScanWrite(r) ==
    IF r.handler = "home"
    THEN home_write_result(IF r.pc = "select" THEN home_select_result(r) ELSE r)
    ELSE add_to_cart_write_result(
             IF r.pc = "select" THEN add_to_cart_select_result(r) ELSE r)

-----------------------------------------------------------------------------
\* C1: in every reachable state, a payment-success call whose signature
\* verifies reads the cart right after the verification, and when its storage
\* writes succeed (no statement raises, the generated order number is not yet
\* in the ledger) it ends with the cart empty and exactly one Order row
\* appended, with status "completed" and total floor(1.05 * subtotal) of the
\* cart as it read it, and answers with success.
C1_VerifiedPaymentCommits ==
    /\ \A body \in PaymentBodies :
           (razorpay_client /\ GenuineSignature(body)) =>
               LET step == payment_success_select_result(body)
               IN  ~step.answered /\ step.request.cart = cart
    /\ \A r \in InFlightOf("payment_success"), now \in Clock, rnd \in RandomDraws :
           LET out == payment_success_commit_result(r, now, rnd, "none")
               last == out.orders[Len(out.orders)]
           IN  (\A i \in 1..Len(orders) : orders[i][2] # generate_order_number(now, rnd))
               => /\ out.cart = <<>>
                  /\ OneOrderAppended(orders, out.orders)
                  /\ last[4] = "completed"
                  /\ last[3] = Floor105(Subtotal(r.cart))
                  /\ last[2] = generate_order_number(now, rnd)
                  /\ PaymentCommitted(out.resp)

\* a verified payment has just committed a two-line cart next to an older order
C1_Witness ==
    /\ PaymentCommitted(resp)
    /\ cart = <<>>
    /\ Len(orders) = 2
    /\ orders[2][3] = 1102
    /\ orders[2][4] = "completed"

-----------------------------------------------------------------------------
\* C2: in every reachable state, a payment-success call whose signature
\* verification fails (the gateway client is configured and the body's
\* signature is not the HMAC of its order id and payment id) leaves the cart
\* and the Order ledger as they were and answers with a failure that
\* redirects to checkout.
C2_FailedVerificationChangesNothing ==
    \A r \in AllPaymentRequests :
        LET out == payment_success_result(r[1], r[2], r[3], r[4])
        IN  ( /\ razorpay_client
              /\ r[1].is_json
              /\ ~GenuineSignature(r[1]) )
            => /\ out.cart = cart
               /\ out.orders = orders
               /\ PaymentRefused(out.resp)
               /\ out.resp.status = 400
               /\ out.resp.json.redirect = "checkout"

\* a verification has just failed while the cart held lines and the gateway
\* held an order of this application
C2_Witness ==
    /\ resp.handler = "payment_success"
    /\ resp.status = 400
    /\ resp.json.redirect = "checkout"
    /\ cart # <<>>
    /\ gateway

-----------------------------------------------------------------------------
\* C3: the order insert and the cart clear of a payment-success call are one
\* transition: in every reachable state, the transaction of a payment-success
\* call in flight, whatever its clock, its random draw and the statement
\* that raises, either appends one Order row, leaves the cart empty and
\* answers success, or leaves the ledger and the cart both as they are and
\* answers with an error.
C3_CommitIsAtomic ==
    \A r \in InFlightOf("payment_success"),
       now \in Clock, rnd \in RandomDraws, fault \in Faults :
        LET out == payment_success_commit_result(r, now, rnd, fault)
        IN  \/ /\ OneOrderAppended(orders, out.orders)
               /\ out.cart = <<>>
               /\ PaymentCommitted(out.resp)
            \/ /\ out.orders = orders
               /\ out.cart = cart
               /\ PaymentRefused(out.resp)

\* the transaction of a verified payment has just been rolled back: its
\* INSERT raised because the order number it generated is in the ledger, the
\* handler printed that exception and answered with the error, the cart
\* still holds the lines the payment was for, and the ledger holds the
\* number once
C3_Witness ==
    /\ resp.handler = "payment_success"
    /\ resp.status = 500
    /\ "printed" \in DOMAIN resp
    /\ resp.printed[2] = "UNIQUE constraint failed: orders.order_number"
    /\ resp.json.redirect = "checkout"
    /\ cart # <<>>
    /\ Cardinality({i \in 1..Len(orders) :
                       orders[i][2] = generate_order_number(FirstClock, 100)}) = 1

-----------------------------------------------------------------------------
\* C4: in every reachable state whose cart is empty, no call reaches the
\* payment gateway and no call writes an Order row: the checkout view
\* redirects to the cart view, createOrder fails without calling the gateway
\* (with a client error when the gateway client is configured), and
\* payment-success appends no Order.
C4_EmptyCartWritesNoOrder ==
    cart = <<>> =>
        /\ checkout_result.resp.status = 302
        /\ checkout_result.resp.location = "home"
        /\ \A body \in CreateOrderBodies :
               LET step == create_order_select_result(body)
               IN  /\ step.answered
                   /\ step.resp.sent = <<>>
                   /\ step.resp.status >= 400
                   /\ razorpay_client => step.resp.status = 400
        /\ \A r \in AllPaymentRequests :
               payment_success_result(r[1], r[2], r[3], r[4]).orders = orders

-----------------------------------------------------------------------------
\* C5: in every reachable state each barcode appears in at most one cart
\* line and every line has quantity >= 1.
C5_CartLinesWellFormed ==
    /\ \A i, j \in 1..Len(cart) : cart[i][1] = cart[j][1] => i = j
    /\ \A i \in 1..Len(cart) : cart[i][4] >= 1

\* a decrement of A1 has just removed its line and left the line of B2
C5_Witness ==
    /\ resp.handler = "update"
    /\ "view_args" \in DOMAIN resp
    /\ resp.view_args = <<A1, "dec">>
    /\ cart = <<CartRow(B2, "Rice", 1000, 1)>>

-----------------------------------------------------------------------------
\* the decimal digits of a natural number
RECURSIVE DecimalOf(_)
DecimalOf(n) == IF n = 0 THEN <<>> ELSE DecimalOf(n \div 10) \o <<n % 10>>

\* what a qty field asks for, in decimal digits: 1 when it is missing, not a
\* number or below 1
RequestedQty(form_qty) ==
    CASE form_qty = Missing -> <<1>>
      [] form_qty = <<"\t", "2">> -> <<2>>
      [] form_qty = <<"0">> -> <<1>>
      [] form_qty = <<"-", "3">> -> <<1>>
      [] form_qty = <<"x">> -> <<1>>
      [] form_qty = <<"U+001C", "2">> -> <<1>>
      [] form_qty = <<"U+0662">> -> <<2>>
      [] form_qty = TwoTo63 -> <<9, 2, 2, 3, 3, 7, 2, 0, 3, 6, 8, 5, 4, 7, 7, 5, 8, 0, 8>>
      [] form_qty = OverMaxStrDigits -> [i \in 1..MaxStrDigits + 1 |-> 9]

\* C6: in every reachable state, a scan (POST /) of a catalogued barcode
\* leaves exactly one line of that barcode whose quantity is the quantity
\* before the scan (0 when the cart had no such line) plus the requested
\* qty, where a qty that is missing, non-numeric or below 1 counts as 1. By
\* induction the quantity after a sequence of scans with nothing else in
\* between, from a cart without the barcode, is the sum of the requested qtys.
C6_ScanAddsRequestedQty ==
    \A r \in ScanRequests :
        LET barcode == FormBarcode(r[1])
            out == home_post_result(r[1], r[2])
        IN  barcode \in DOMAIN products
            => /\ QtyOf(out.cart, barcode) >= QtyOf(cart, barcode)
               /\ DecimalOf(QtyOf(out.cart, barcode) - QtyOf(cart, barcode))
                      = RequestedQty(r[2])
               /\ Cardinality(LinesOf(out.cart, barcode)) = 1
               /\ out.resp.status = 302
               /\ out.resp.flash = NoFlash

-----------------------------------------------------------------------------
\* C7: in every reachable state, /update/<barcode>/dec lowers the line's
\* quantity by exactly 1 when it is above 1, removes the line when it is 1,
\* and changes nothing and reports no error when the cart has no line of
\* the barcode.
C7_DecrementLowersOrRemoves ==
    \A barcode \in PathBarcodes :
        LET out == update_result(barcode, "dec")
        IN  /\ QtyOf(cart, barcode) > 1 =>
                  /\ QtyOf(out.cart, barcode) = QtyOf(cart, barcode) - 1
                  /\ Cardinality(LinesOf(out.cart, barcode)) = 1
            /\ QtyOf(cart, barcode) = 1 => LinesOf(out.cart, barcode) = {}
            /\ LinesOf(cart, barcode) = {} => out.cart = cart
            /\ out.resp.status = 302
            /\ out.resp.flash = NoFlash

\* a decrement of A1 has just left one A1 in the cart
C7_Witness ==
    /\ resp.handler = "update"
    /\ "view_args" \in DOMAIN resp
    /\ resp.view_args = <<A1, "dec">>
    /\ cart = <<CartRow(A1, "Apple", 50, 1)>>

-----------------------------------------------------------------------------
\* C8: in every reachable state the total every reader computes is the sum
\* over all lines of the cart it reads of price * quantity, and 0 for an
\* empty cart: the total of the cart view, the total of the checkout view,
\* the total behind the amount createOrder sends, and the total behind the
\* amount payment-success records, also when they hold the cart they read
\* while other requests are served.
C8_TotalIsSumOfLines ==
    /\ \A now \in Clock, rnd \in RandomDraws :
           home_get_result(now, rnd).resp.context.total = Subtotal(cart)
    /\ cart # <<>> => checkout_result.resp.context.total = Subtotal(cart)
    /\ cart # <<>> => SumRows(cart) = Subtotal(cart)
    /\ CartTotal(cart) = Subtotal(cart)
    /\ cart = <<>> => CartTotal(cart) = 0 /\ Subtotal(cart) = 0
    /\ (razorpay_client /\ cart # <<>>) =>
           \A body \in CreateOrderBodies, outcome \in GatewayOutcomes :
               LET out == create_order_result(body, outcome)
               IN  out.resp.sent # <<>> =>
                       out.resp.sent[1].amount = FinalAmount(Subtotal(cart)) * 100
    /\ razorpay_client =>
           \A body \in PaymentBodies, now \in Clock, rnd \in RandomDraws :
               LET out == payment_success_result(body, now, rnd, "none")
               IN  PaymentCommitted(out.resp) =>
                       out.orders[Len(out.orders)][3] = FinalAmount(Subtotal(cart))
    /\ \A r \in InFlightOf("create_order") :
           r.order_amount = FinalAmount(Subtotal(r.cart)) * 100
    /\ \A r \in InFlightOf("payment_success"), now \in Clock, rnd \in RandomDraws :
           LET out == payment_success_commit_result(r, now, rnd, "none")
           IN  PaymentCommitted(out.resp) =>
                   out.orders[Len(out.orders)][3] = FinalAmount(Subtotal(r.cart))

\* the cart view has just shown the total of a cart of two lines
C8_Witness ==
    /\ resp.handler = "home"
    /\ resp.status = 200
    /\ resp.context.total = 1050
    /\ Len(resp.context.cart) = 2
    /\ cart = resp.context.cart

-----------------------------------------------------------------------------
\* C9: finalAmount = floor(subtotal * 1.05) for every non-negative integer
\* subtotal: whenever int(total * 1.05) has been computed for a subtotal,
\* the result is floor(1.05 * subtotal), and subtotal 1000 gives 1050.
C9_FinalAmountIsFloor ==
    /\ FinalAmount(1000) = 1050
    /\ resp.handler = "final_amount" => resp.final_amount = BigFloor105(resp.total)

-----------------------------------------------------------------------------
\* C10: the Order ledger is append-only and has unique order numbers: in
\* every reachable state the order numbers of the ledger are pairwise
\* distinct, and every step leaves the rows the ledger had where they were
\* and as they were.
C10_LedgerAppendOnlyUnique ==
    /\ [](\A i, j \in 1..Len(orders) : orders[i][2] = orders[j][2] => i = j)
    /\ [][ /\ Len(orders') >= Len(orders)
           /\ SubSeq(orders', 1, Len(orders)) = orders ]_vars

\* the ledger holds two orders and the second has just been committed
C10_Witness ==
    /\ Len(orders) = 2
    /\ orders[1][2] # orders[2][2]
    /\ PaymentCommitted(resp)
    /\ resp.json.message[2] = orders[2][2]

-----------------------------------------------------------------------------
\* C11: in every reachable state in which the gateway client is not
\* configured, a createOrder call answers with the HTTP status service
\* unavailable (503) and a configuration error, whatever the cart holds, and
\* does not call the gateway.
C11_UnconfiguredIsServiceUnavailable ==
    ~razorpay_client =>
        \A body \in CreateOrderBodies :
            LET step == create_order_select_result(body)
            IN  /\ step.answered
                /\ step.resp.status = 503
                /\ step.resp.json = [error |-> "Razorpay not configured"]
                /\ step.resp.sent = <<>>

-----------------------------------------------------------------------------
\* C12: in every reachable state, POST /payment-failure with any body leaves
\* the cart and the Order ledger as they were and answers with a failure
\* message and a redirect to checkout.
C12_PaymentFailureChangesNothing ==
    \A body \in FailureBodies :
        LET out == payment_failure_result(body)
        IN  /\ out.cart = cart
            /\ out.orders = orders
            /\ out.gateway = gateway
            /\ ~out.resp.json.success
            /\ out.resp.json.error # ""
            /\ out.resp.json.redirect = "checkout"

\* a payment failure has just been reported while the cart held two lines
\* and the gateway held an order of this application
C12_Witness ==
    /\ resp.handler = "payment_failure"
    /\ resp.status = 200
    /\ resp.json.error = "Card declined"
    /\ Len(cart) = 2
    /\ gateway

-----------------------------------------------------------------------------
\* C13: scans (POST / or add-to-cart) are served at the same time, in any
\* interleaving of their statements; the write of every scan takes effect
\* and does not end in a storage error: it leaves the line's quantity at what
\* the cart held plus the scan's qty, so that two scans of a barcode the cart
\* does not hold leave the sum of their qtys also when both read "absent"
\* before either writes.
C13_ConcurrentScansBothCount ==
    [][\A r \in ScansInFlight :
          (Stored(r) /\ requests' = requests (-) SetToBag({r})) =>
              /\ resp'.flash = NoFlash \/ resp'.flash[1] = "success"
              /\ QtyOf(cart', r.barcode) = QtyOf(cart, r.barcode) + Pending(r)]_vars

-----------------------------------------------------------------------------
\* C14 as stated: in every reachable state of a checkout whose gateway order
\* is open and whose cart a scan, inc, dec or delete has changed since
\* createOrder read it and not since payment-success read it, the total a
\* verified payment-success commits is recomputed from the cart it read and
\* differs from the amount createOrder sent to the gateway, divided by 100.
C14_EditedCartTotalDiffers ==
    \A r \in InFlightOf("payment_success"), rnd \in RandomDraws :
        LET out == payment_success_commit_result(r, FirstClock, rnd, "none")
            total == out.orders[Len(out.orders)][3]
        IN  (PaymentCommitted(out.resp) /\ flow.created /\ flow.edited /\ r.cart = cart) =>
                /\ total = Floor105(Subtotal(r.cart))
                /\ total * 100 # flow.amount

\* C14 as amended: cart edits are served between a successful createOrder
\* and the verified payment-success; the total of the committed Order is
\* recomputed from the cart as payment-success reads it, and it differs from
\* the amount createOrder sent to the gateway, divided by 100, exactly when
\* that cart's subtotal is not the one createOrder computed.
C14_CommitRecomputesFromCurrentCart ==
    \A r \in InFlightOf("payment_success"), rnd \in RandomDraws :
        LET out == payment_success_commit_result(r, FirstClock, rnd, "none")
            total == out.orders[Len(out.orders)][3]
        IN  (PaymentCommitted(out.resp) /\ flow.created) =>
                /\ total = Floor105(Subtotal(r.cart))
                /\ (Subtotal(r.cart) # flow.subtotal) <=> (total * 100 # flow.amount)

\* createOrder sent 5200 for one Apple, a second Apple was scanned, and the
\* payment has just been committed with total 105
C14_Witness ==
    /\ PaymentCommitted(resp)
    /\ ~flow.created
    /\ flow.edited
    /\ flow.amount = 5200
    /\ orders = <<OrderRow(1, generate_order_number(FirstClock, 100), 105, "completed")>>
    /\ cart = <<>>

-----------------------------------------------------------------------------
\* C15: in every reachable state, whatever the catalog says now or said
\* when a scan in flight loaded it, a scan, an add-to-cart, an inc or a dec
\* of a barcode that has a line in the cart leaves the name and the price of
\* that line as they are stored; served without another request in between,
\* the scan, the add-to-cart and the inc keep the line, and raise its
\* quantity (the scan when its qty is one SQLite stores).
C15_StoredNameAndPriceKept ==
    \A i \in 1..Len(cart) :
        LET barcode == cart[i][1]
            Kept(rows) ==
                \A j \in LinesOf(rows, barcode) :
                    rows[j][2] = cart[i][2] /\ rows[j][3] = cart[i][3]
            Raised(rows) ==
                LinesOf(rows, barcode) # {} /\ QtyOf(rows, barcode) > cart[i][4]
        IN  /\ \A r \in ScanRequests :
                   (FormBarcode(r[1]) = barcode /\ barcode \in DOMAIN products) =>
                       LET rows == home_post_result(r[1], r[2]).cart
                       IN  /\ Kept(rows)
                           /\ LinesOf(rows, barcode) # {}
                           /\ ~SqliteInteger(FormQty(r[2])).raised => Raised(rows)
            /\ barcode \in DOMAIN products =>
                   LET rows == add_to_cart_result(barcode).cart
                   IN  Kept(rows) /\ Raised(rows)
            /\ LET rows == update_result(barcode, "inc").cart
               IN  Kept(rows) /\ Raised(rows)
            /\ Kept(update_result(barcode, "dec").cart)
            /\ \A r \in ScansInFlight : Kept(ScanWrite(r).cart)

\* the line of A1 was inserted at price 50, the catalog now says Apple Red
\* at 60, and an inc of A1 has just been served
C15_Witness ==
    /\ resp.handler = "update"
    /\ "view_args" \in DOMAIN resp
    /\ resp.view_args = <<A1, "inc">>
    /\ products = Catalog1
    /\ cart = <<CartRow(A1, "Apple", 50, 2)>>

-----------------------------------------------------------------------------
\* a response that is a redirect to an endpoint
RedirectsTo(r, endpoint) == r.status = 302 /\ r.location = endpoint

\* C16: in every reachable state, a request that fails input validation
\* leaves the cart and the Order ledger unchanged and is answered with a
\* redirect, not a server error: a scan whose barcode is empty, a scan or an
\* add-to-cart of a barcode that is not in the catalog, and an update whose
\* action is neither inc nor dec.
C16_ValidationFailureRedirects ==
    /\ \A r \in ScanRequests :
           (FormBarcode(r[1]) = <<>> \/ FormBarcode(r[1]) \notin DOMAIN products) =>
               LET out == home_post_result(r[1], r[2])
               IN  /\ out.cart = cart
                   /\ out.orders = orders
                   /\ RedirectsTo(out.resp, "home")
    /\ \A barcode \in PathBarcodes \ DOMAIN products :
           LET out == add_to_cart_result(barcode)
           IN  /\ out.cart = cart
               /\ out.orders = orders
               /\ RedirectsTo(out.resp, "shop")
    /\ \A barcode \in PathBarcodes, action \in PathActions \ {"inc", "dec"} :
           LET out == update_result(barcode, action)
           IN  /\ out.cart = cart
               /\ out.orders = orders
               /\ RedirectsTo(out.resp, "home")

\* an update with the action "set" has just been refused while the cart
\* held a line of the barcode
C16_Witness ==
    /\ resp.handler = "update"
    /\ RedirectsTo(resp, "home")
    /\ resp.flash = Flash("error", <<"Invalid action", "set">>)
    /\ cart = <<CartRow(A1, "Apple", 50, 2)>>

-----------------------------------------------------------------------------
\* C17: in every reachable state, a createOrder call makes at most one
\* order.create call at the gateway, leaves the cart and the Order ledger
\* unchanged whether that call returns or raises, and answers a call that
\* raised with an error response; so does the call of every createOrder that
\* waits for the gateway while other requests are served.
C17_CreateOrderCallsGatewayOnce ==
    /\ \A body \in CreateOrderBodies, outcome \in GatewayOutcomes :
           LET out == create_order_result(body, outcome)
               called == out.resp.sent # <<>>
           IN  /\ Len(out.resp.sent) <= 1
               /\ out.cart = cart
               /\ out.orders = orders
               /\ (called /\ outcome = "raises") =>
                      /\ out.resp.status >= 400
                      /\ DOMAIN out.resp.json = {"error"}
                      /\ out.gateway = gateway
               /\ (called /\ outcome = "created") =>
                      /\ out.resp.status = 200
                      /\ out.resp.json.order_id = GatewayOrderId
    /\ \A r \in InFlightOf("create_order"), outcome \in GatewayOutcomes :
           LET out == create_order_gateway_result(r, outcome)
           IN  /\ Len(out.resp.sent) = 1
               /\ out.cart = cart
               /\ out.orders = orders
               /\ outcome = "raises" =>
                      /\ out.resp.status >= 400
                      /\ DOMAIN out.resp.json = {"error"}
                      /\ out.gateway = gateway

\* order.create has just raised for a cart of two lines; the call was made
\* once and the cart is as it was
C17_Witness ==
    /\ resp.handler = "create_order"
    /\ resp.status = 500
    /\ resp.json = [error |-> "order.create"]
    /\ Len(resp.sent) = 1
    /\ Len(cart) = 2
    /\ ~gateway

-----------------------------------------------------------------------------
\* the rows whose barcode is not the given one, in their order
OtherLines(rows, barcode) == SelectSeq(rows, LAMBDA row : row[1] # barcode)

\* C18: in every reachable state, an inc, a dec and a delete of a barcode
\* leave every cart line of another barcode present and unchanged (name,
\* price and quantity) and leave the Order ledger unchanged; the dec's
\* `DELETE FROM cart WHERE qty <= 0` removes no line of another barcode.
C18_OtherLinesUntouched ==
    \A barcode \in PathBarcodes :
        \A out \in {update_result(barcode, "inc"), update_result(barcode, "dec"),
                    delete_result(barcode)} :
            /\ OtherLines(out.cart, barcode) = OtherLines(cart, barcode)
            /\ out.orders = orders

\* a dec of B2 has just been served and the line of A1 is as it was
C18_Witness ==
    /\ resp.handler = "update"
    /\ "view_args" \in DOMAIN resp
    /\ resp.view_args = <<B2, "dec">>
    /\ cart = <<CartRow(A1, "Apple", 50, 1)>>

=============================================================================
